---- MODULE Spec2Model ----
(***************************************************************************)
(* Model of load_log_data (src/analyzer/analyzer.py): the single-pass      *)
(* scanner that walks a poker log line by line, resets on hand markers,    *)
(* captures per-agent JSON prompt blocks by brace counting, caches the     *)
(* parsed prompt per agent and fuses each decision line with the cached    *)
(* prompt of its agent.                                                    *)
(*                                                                         *)
(* A line of the log is a sequence of tokens (strings).  Braces are always *)
(* tokens of their own, so str.count, str.rfind and slicing are computed   *)
(* on token positions; regular-expression searches look for the marker,    *)
(* prompt and decision tokens anywhere in the line.  Every line ends with  *)
(* the newline token, as the elements of readlines() do.                   *)
(***************************************************************************)
EXTENDS Integers, Sequences, FiniteSets, TLC

VARIABLES file_exists, lines, line_count, i, current_hand, agent_prompts, data,
          pc, result, diagnostics, trace, pass, previous

vars == <<file_exists, lines, line_count, i, current_hand, agent_prompts, data,
          pc, result, diagnostics, trace, pass, previous>>

\* what a pass over the file leaves alone
call == <<pass, previous, file_exists, lines, line_count>>

(***************************************************************************)
(* Bounds of the model.                                                    *)
(***************************************************************************)
MaxLines == 5
MaxHand == 2
MaxPhaseLines == 4
MaxFailLines == 6
MaxLiveLines == 4
MaxTwiceLines == 4

(***************************************************************************)
(* Tokens of the log.                                                      *)
(***************************************************************************)
NL == "\n"
SP == " "
LBrace == "{"
RBrace == "}"
Comma == ","
Null == "null"

Agents == {"Agent1", "Agent2"}
Hands == 1..MaxHand
Actions == {"raise", "fold"}
Amounts == {40, 0}
Keys == {"your_chips", "your_cards", "community", "stats"}
IntToks == {"980", "7"}
CardLists == {<<>>, <<"Ah", "Kd">>, <<"2c", "3d", "4h">>,
              <<"2c", "3d", "4h", "5s">>, <<"2c", "3d", "4h", "5s", "6d">>}

HandTok(n) == "=== STARTING NEW HAND #" \o ToString(n) \o " ==="
PromptTok(a) == "LLM Prompt for " \o a \o ": "
DecisionTok(a, act, amt) ==
    "[" \o a \o "] Successfully parsed decision: " \o act \o ", "
        \o ToString(amt) \o ", "
KeyTok(k) == "\"" \o k \o "\":"

RECURSIVE JoinStr(_, _)
JoinStr(sep, s) ==
    IF s = <<>> THEN ""
    ELSE IF Len(s) = 1 THEN s[1]
    ELSE s[1] \o sep \o JoinStr(sep, Tail(s))

ArrTok(s) == IF s = <<>> THEN "[]" ELSE "[\"" \o JoinStr("\",\"", s) \o "\"]"

HandToks == {HandTok(n) : n \in Hands}
ArrToks == {ArrTok(s) : s \in CardLists}
KeyToks == {KeyTok(k) : k \in Keys}
ScalarToks == IntToks \cup ArrToks \cup {Null}

(***************************************************************************)
(* String helpers on token sequences.                                      *)
(***************************************************************************)
Count(s, t) == Cardinality({p \in 1..Len(s) : s[p] = t})

\* str.rfind: the last position of t (1-based), 0 when absent
RFind(s, t) ==
    IF \E p \in 1..Len(s) : s[p] = t
    THEN CHOOSE p \in 1..Len(s) : s[p] = t /\ \A q \in (p+1)..Len(s) : s[q] # t
    ELSE 0

IsSpace(t) == t \in {NL, SP}

RECURSIVE Strip(_)
Strip(s) ==
    IF s = <<>> THEN s
    ELSE IF IsSpace(s[1]) THEN Strip(Tail(s))
    ELSE IF IsSpace(s[Len(s)]) THEN Strip(SubSeq(s, 1, Len(s) - 1))
    ELSE s

RECURSIVE WithoutSpace(_)
WithoutSpace(s) ==
    IF s = <<>> THEN <<>>
    ELSE IF IsSpace(s[1]) THEN WithoutSpace(Tail(s))
    ELSE <<s[1]>> \o WithoutSpace(Tail(s))

(***************************************************************************)
(* The three regular expressions of the dispatch loop.  re.search finds    *)
(* the leftmost match anywhere in the line; 0 stands for "no match".       *)
(***************************************************************************)
PromptToks == {PromptTok(a) : a \in Agents}
DecisionToks == {DecisionTok(a, act, amt) : a \in Agents, act \in Actions, amt \in Amounts}

\* the position of the leftmost match, 0 for no match
FirstOf(positions) ==
    IF positions = {} THEN 0
    ELSE CHOOSE p \in positions : \A q \in positions : p <= q

\* r"=== STARTING NEW HAND #(\d+) ==="
hand_match(line) == FirstOf({p \in 1..Len(line) : line[p] \in HandToks})
HandGroup1(line) == CHOOSE n \in Hands : HandTok(n) = line[hand_match(line)]

\* r"LLM Prompt for (Agent\d+): \{"
prompt_match(line) ==
    FirstOf({p \in 1..(Len(line) - 1) : line[p] \in PromptToks /\ line[p+1] = LBrace})
PromptGroup1(line) == CHOOSE a \in Agents : PromptTok(a) = line[prompt_match(line)]

\* r"\[(Agent\d+)\] Successfully parsed decision: (\w+), (\d+), (.*)"
decision_match(line) == FirstOf({p \in 1..Len(line) : line[p] \in DecisionToks})
DecisionGroups(line) ==
    LET p == decision_match(line)
        g == CHOOSE g \in Agents \X Actions \X Amounts :
                 DecisionTok(g[1], g[2], g[3]) = line[p]
        \* (.*) runs to the end of the line and does not match the newline
        rest == SubSeq(line, p + 1, Len(line))
        stop == FirstOf({q \in 1..Len(rest) : rest[q] = NL})
    IN  [agent |-> g[1], action |-> g[2], amount |-> g[3],
         text |-> IF stop = 0 THEN rest ELSE SubSeq(rest, 1, stop - 1)]

(***************************************************************************)
(* json.loads on the captured text.  The grammar is the one of JSON over   *)
(* the tokens of the log: an object is "{" "}" or "{" member ("," member)* *)
(* "}", a member is a key token followed by a value, a value is a scalar   *)
(* token or an object.  Whitespace between tokens is skipped; anything     *)
(* else (a missing or trailing comma, text after the object, an unclosed   *)
(* object, a foreign token) raises JSONDecodeError.                        *)
(* A parsed object is the sequence of its top-level members, each with the *)
(* key and the tokens of its value.                                        *)
(***************************************************************************)
ParseFail == [ok |-> FALSE, next |-> 0, members |-> <<>>]

RECURSIVE ParseObject(_, _), ParseMembers(_, _, _)
ParseValue(s, p) ==
    IF p > Len(s) THEN ParseFail
    ELSE IF s[p] \in ScalarToks THEN [ok |-> TRUE, next |-> p + 1, members |-> <<>>]
    ELSE IF s[p] = LBrace THEN ParseObject(s, p)
    ELSE ParseFail

ParseObject(s, p) ==
    IF p + 1 > Len(s) THEN ParseFail
    ELSE IF s[p+1] = RBrace THEN [ok |-> TRUE, next |-> p + 2, members |-> <<>>]
    ELSE ParseMembers(s, p + 1, <<>>)

ParseMembers(s, p, acc) ==
    IF p > Len(s) \/ s[p] \notin KeyToks THEN ParseFail
    ELSE LET v == ParseValue(s, p + 1) IN
         IF ~v.ok \/ v.next > Len(s) THEN ParseFail
         ELSE LET key == CHOOSE k \in Keys : KeyTok(k) = s[p]
                  acc2 == Append(acc, [k |-> key, v |-> SubSeq(s, p + 1, v.next - 1)])
              IN  IF s[v.next] = Comma THEN ParseMembers(s, v.next + 1, acc2)
                  ELSE IF s[v.next] = RBrace
                       THEN [ok |-> TRUE, next |-> v.next + 1, members |-> acc2]
                       ELSE ParseFail

\* dict built from the members: a repeated key keeps its last value
DictOfMembers(m) ==
    {[k |-> m[p].k, v |-> m[p].v] : p \in {q \in 1..Len(m) :
                                           \A r \in (q+1)..Len(m) : m[r].k # m[q].k}}

json_loads(text) ==
    LET s == WithoutSpace(text)
        r == IF s # <<>> /\ s[1] = LBrace THEN ParseObject(s, 1) ELSE ParseFail
    IN  IF r.ok /\ r.next = Len(s) + 1
        THEN [ok |-> TRUE, value |-> DictOfMembers(r.members)]
        ELSE [ok |-> FALSE, value |-> {}]

(***************************************************************************)
(* dict operations, on a dict kept as a set of [k, v] entries.             *)
(***************************************************************************)
DictHas(d, key) == \E e \in d : e.k = key
DictGet(d, key, default) ==
    IF DictHas(d, key) THEN (CHOOSE e \in d : e.k = key).v ELSE default
\* DictSet that adds the entry without replacing the one of the same key
DictSetAdd(d, key, value) == d \cup {[k |-> key, v |-> value]}
DictSet(d, key, value) == {e \in d : e.k # key} \cup {[k |-> key, v |-> value]}
\* DictPop that leaves the entry in place
DictPopKeep(d, key) == d
DictPop(d, key) == {e \in d : e.k # key}

(***************************************************************************)
(* Python values of a parsed member (the tokens of its value).             *)
(***************************************************************************)
ArrVal(t) == CHOOSE s \in CardLists : ArrTok(s) = t

ValueKind(v) ==
    IF v[1] \in ArrToks THEN "list"
    ELSE IF v[1] = LBrace THEN "dict"
    ELSE IF v[1] = Null THEN "null"
    ELSE "int"

\* the keys of a nested object, in insertion order
DictKeys(v) ==
    LET m == ParseObject(v, 1).members
        first == {q \in 1..Len(m) : \A r \in 1..(q-1) : m[r].k # m[q].k}
        Pick[n \in 0..Len(m)] ==
            IF n = 0 THEN <<>>
            ELSE IF n \in first THEN Append(Pick[n-1], m[n].k) ELSE Pick[n-1]
    IN  Pick[Len(m)]

\* iterating the value: the elements of a list, the keys of a dict
Elements(v) == IF ValueKind(v) = "list" THEN ArrVal(v[1]) ELSE DictKeys(v)

\* len(v) and ", ".join(v) raise TypeError on a number and on null
HasLen(v) == ValueKind(v) \in {"list", "dict"}
PyLen(v) == Len(Elements(v))
PyJoin(v) == JoinStr(", ", Elements(v))

(***************************************************************************)
(* Phase from the number of community cards (lines 110-119).               *)
(***************************************************************************)
\* derived_phase where a count below 3 is the preflop
derived_phase_below3(num_community_cards) ==
    IF num_community_cards < 3 THEN "preflop"
    ELSE IF num_community_cards = 3 THEN "flop"
    ELSE IF num_community_cards = 4 THEN "turn"
    ELSE IF num_community_cards = 5 THEN "river"
    ELSE "unknown"

derived_phase(num_community_cards) ==
    IF num_community_cards = 0 THEN "preflop"
    ELSE IF num_community_cards = 3 THEN "flop"
    ELSE IF num_community_cards = 4 THEN "turn"
    ELSE IF num_community_cards = 5 THEN "river"
    ELSE "unknown"

(***************************************************************************)
(* The inner loop of the prompt branch (lines 52-77): reads lines from     *)
(* index k (0-based) with the running brace level and the text captured so *)
(* far, and returns the cursor, the level and the text at loop exit.       *)
(***************************************************************************)
RECURSIVE ReadJsonBlock(_, _, _)
ReadJsonBlock(k, bracket_level, json_str) ==
    IF ~(k < line_count)
    THEN [i |-> k, bracket_level |-> bracket_level, json_str |-> json_str]
    ELSE LET json_line == lines[k + 1]
             brace_close_count == Count(json_line, RBrace)
         IN  IF brace_close_count > 0
             THEN LET level == bracket_level - brace_close_count IN
                  IF level = 0
                  THEN LET last_brace_index == RFind(json_line, RBrace) IN
                       [i |-> k, bracket_level |-> level,
                        json_str |-> json_str \o SubSeq(json_line, 1, last_brace_index)]
                  ELSE IF level < 0
                  THEN [i |-> k, bracket_level |-> level,
                        json_str |-> json_str \o json_line]
                  ELSE ReadJsonBlock(k + 1, level, json_str \o json_line)
             ELSE IF Count(json_line, LBrace) > 0
             THEN ReadJsonBlock(k + 1, bracket_level + Count(json_line, LBrace),
                                json_str \o json_line)
             ELSE ReadJsonBlock(k + 1, bracket_level, json_str \o json_line)

(***************************************************************************)
(* The log files of the model: every sequence of at most MaxLines lines    *)
(* over the line alphabet.                                                 *)
(***************************************************************************)
MarkerLine(n) == <<HandTok(n), NL>>
PromptLine(a) == <<PromptTok(a), LBrace, NL>>
DecisionLine(a) == <<DecisionTok(a, "raise", 40), SP, "strong hand", SP, NL>>
FoldLine(a) == <<DecisionTok(a, "fold", 0), "weak", NL>>
MarkerDecisionLine(n, a) ==
    <<HandTok(n), SP, DecisionTok(a, "raise", 40), "strong hand", NL>>
PromptDecisionLine(a) == <<DecisionTok(a, "raise", 40), PromptTok(a), LBrace, NL>>
CloseWith(cards) == <<KeyTok("community"), ArrTok(cards), RBrace, NL>>
CloseLine == CloseWith(<<>>)
FlopCloseLine == CloseWith(<<"2c", "3d", "4h">>)
BadCloseLine == <<"oops", RBrace, NL>>
MismatchLine == <<RBrace, RBrace, NL>>
ChipsCardsLine ==
    <<KeyTok("your_chips"), "980", Comma, KeyTok("your_cards"), ArrTok(<<"Ah", "Kd">>),
      Comma, NL>>
NestedLine == <<KeyTok("stats"), LBrace, KeyTok("your_chips"), "7", RBrace, Comma, NL>>
OpenNestedLine == <<KeyTok("stats"), LBrace, KeyTok("your_chips"), "7", NL>>
CloseNestedLine == <<RBrace, Comma, NL>>
NoCommunityCloseLine == <<KeyTok("your_chips"), "980", RBrace, NL>>
NullCommunityCloseLine == <<KeyTok("community"), Null, RBrace, NL>>

\* hand lifecycle, eviction and orphan decisions
LogLines ==
    {MarkerLine(n) : n \in Hands} \cup {PromptLine(a) : a \in Agents}
        \cup {DecisionLine(a) : a \in Agents}
        \cup {CloseLine, BadCloseLine, MismatchLine}

\* prompt bodies over several lines, with nested objects
JsonLines ==
    {MarkerLine(n) : n \in Hands} \cup
    {PromptLine("Agent1"), DecisionLine("Agent1"), ChipsCardsLine, NestedLine,
     OpenNestedLine, CloseNestedLine, CloseLine}

\* every community value: absent, null, and lists of 0, 2, 3, 4 and 5 cards
PhaseLines ==
    {MarkerLine(n) : n \in Hands} \cup
    {PromptLine("Agent1"), DecisionLine("Agent1"), NoCommunityCloseLine,
     NullCommunityCloseLine} \cup {CloseWith(c) : c \in CardLists}

\* two prompts of one agent with different contents
OverwriteLines ==
    {MarkerLine(n) : n \in Hands} \cup {PromptLine(a) : a \in Agents} \cup
    {DecisionLine("Agent1"), CloseLine, FlopCloseLine, BadCloseLine}

\* decision lines that differ, after one prompt
OrderLines ==
    {MarkerLine(n) : n \in Hands} \cup
    {PromptLine("Agent1"), CloseLine, DecisionLine("Agent1"), FoldLine("Agent1")}

\* a prompt that parses and whose community value is null, after good ones
FailureLines ==
    {MarkerLine(n) : n \in Hands} \cup
    {PromptLine("Agent1"), DecisionLine("Agent1"), CloseLine, NullCommunityCloseLine}

\* every branch of the loop and every way a prompt block ends
LiveLines ==
    {MarkerLine(n) : n \in Hands} \cup
    {PromptLine("Agent1"), DecisionLine("Agent1"), CloseLine, BadCloseLine, MismatchLine}

\* lines that match two of the three patterns
DispatchLines ==
    {MarkerLine(n) : n \in Hands} \cup
    {MarkerDecisionLine(n, "Agent1") : n \in Hands} \cup
    {PromptLine("Agent1"), DecisionLine("Agent1"), CloseLine, PromptDecisionLine("Agent1")}

Files(alphabet, max) == UNION {[1..n -> alphabet] : n \in 0..max}

(***************************************************************************)
(* State at the start of the pass: either no file exists at the path, or   *)
(* the file is read (lines 19-29) and nothing is scanned yet.              *)
(* trace is a history variable: one entry per iteration of the outer loop. *)
(* pass counts the calls of load_log_data on the file, previous is what    *)
(* the call before returned.                                               *)
(***************************************************************************)
\* InitOn with the hand counter starting at 1
InitOnHandOne(alphabet, max) ==
    /\ \/ file_exists = TRUE /\ lines \in Files(alphabet, max)
       \/ file_exists = FALSE /\ lines = <<>>
    /\ line_count = Len(lines)
    /\ i = 0
    /\ current_hand = 1
    /\ agent_prompts = {}
    /\ data = <<>>
    /\ pc = "scan"
    /\ result = <<>>
    /\ diagnostics = 0
    /\ trace = <<>>
    /\ pass = 1
    /\ previous = [result |-> <<>>, diagnostics |-> 0]

InitOn(alphabet, max) ==
    /\ \/ file_exists = TRUE /\ lines \in Files(alphabet, max)
       \/ file_exists = FALSE /\ lines = <<>>
    /\ line_count = Len(lines)
    /\ i = 0
    /\ current_hand = 0
    /\ agent_prompts = {}
    /\ data = <<>>
    /\ pc = "scan"
    /\ result = <<>>
    /\ diagnostics = 0
    /\ trace = <<>>
    /\ pass = 1
    /\ previous = [result |-> <<>>, diagnostics |-> 0]

Init == InitOn(LogLines, MaxLines)

\* line: the line dispatched (0-based); last: the last line the iteration read;
\* rec: the position in data of the record it appended, 0 when it appended none
Event(kind, agent, outcome, last, rec) ==
    [line |-> i, kind |-> kind, agent |-> agent, outcome |-> outcome, last |-> last,
     rec |-> rec]

\* HandMarker with line 38 left out: the cache survives the marker
HandMarkerNoClear ==
    /\ pc = "scan" /\ file_exists /\ i < line_count
    /\ hand_match(lines[i + 1]) # 0
    /\ current_hand' = HandGroup1(lines[i + 1])
    /\ i' = i + 1
    /\ trace' = Append(trace, Event("hand", "", "reset", i, 0))
    /\ UNCHANGED <<call, agent_prompts, data, pc, result, diagnostics>>

\* HandMarker clearing the cache only when the hand number changes
HandMarkerSameHand ==
    /\ pc = "scan" /\ file_exists /\ i < line_count
    /\ hand_match(lines[i + 1]) # 0
    /\ current_hand' = HandGroup1(lines[i + 1])
    /\ agent_prompts' = IF HandGroup1(lines[i + 1]) = current_hand
                        THEN agent_prompts ELSE {}
    /\ i' = i + 1
    /\ trace' = Append(trace, Event("hand", "", "reset", i, 0))
    /\ UNCHANGED <<call, data, pc, result, diagnostics>>

\* the hand id counts the markers instead of taking the marker's number
HandMarkerCount ==
    /\ pc = "scan" /\ file_exists /\ i < line_count
    /\ hand_match(lines[i + 1]) # 0
    /\ current_hand' = current_hand + 1
    /\ agent_prompts' = {}
    /\ i' = i + 1
    /\ trace' = Append(trace, Event("hand", "", "reset", i, 0))
    /\ UNCHANGED <<call, data, pc, result, diagnostics>>

\* lines 35-40
HandMarker ==
    /\ pc = "scan" /\ file_exists /\ i < line_count
    /\ hand_match(lines[i + 1]) # 0
    /\ current_hand' = HandGroup1(lines[i + 1])
    /\ agent_prompts' = {}
    /\ i' = i + 1
    /\ trace' = Append(trace, Event("hand", "", "reset", i, 0))
    /\ UNCHANGED <<call, data, pc, result, diagnostics>>

\* the outer loop resumes on the line after the prompt start
PromptBlockRewind ==
    /\ pc = "scan" /\ file_exists /\ i < line_count
    /\ hand_match(lines[i + 1]) = 0
    /\ prompt_match(lines[i + 1]) # 0
    /\ LET agent_name == PromptGroup1(lines[i + 1])
           blk == ReadJsonBlock(i + 1, 1, <<LBrace, NL>>)
           prompt_data == json_loads(blk.json_str)
       IN  IF blk.bracket_level # 0
           THEN /\ i' = i + 1
                /\ agent_prompts' = agent_prompts
                /\ trace' = Append(trace, Event("prompt", agent_name,
                                IF blk.bracket_level < 0 THEN "mismatch" ELSE "incomplete",
                                blk.i, 0))
           ELSE /\ i' = i + 1
                /\ agent_prompts' =
                      IF prompt_data.ok
                      THEN DictSet(agent_prompts, agent_name,
                                   [data |-> prompt_data.value, str |-> blk.json_str])
                      ELSE DictPop(agent_prompts, agent_name)
                /\ trace' = Append(trace, Event("prompt", agent_name,
                                IF prompt_data.ok THEN "cached" ELSE "parse_failure",
                                blk.i, 0))
    /\ UNCHANGED <<call, current_hand, data, pc, result, diagnostics>>

\* a parse failure empties the whole cache
PromptBlockClear ==
    /\ pc = "scan" /\ file_exists /\ i < line_count
    /\ hand_match(lines[i + 1]) = 0
    /\ prompt_match(lines[i + 1]) # 0
    /\ LET agent_name == PromptGroup1(lines[i + 1])
           blk == ReadJsonBlock(i + 1, 1, <<LBrace, NL>>)
           prompt_data == json_loads(blk.json_str)
       IN  IF blk.bracket_level # 0
           THEN /\ i' = blk.i + 1
                /\ agent_prompts' = agent_prompts
                /\ trace' = Append(trace, Event("prompt", agent_name,
                                IF blk.bracket_level < 0 THEN "mismatch" ELSE "incomplete",
                                blk.i, 0))
           ELSE /\ i' = blk.i + 1
                /\ agent_prompts' =
                      IF prompt_data.ok
                      THEN DictSet(agent_prompts, agent_name,
                                   [data |-> prompt_data.value, str |-> blk.json_str])
                      ELSE {}
                /\ trace' = Append(trace, Event("prompt", agent_name,
                                IF prompt_data.ok THEN "cached" ELSE "parse_failure",
                                blk.i, 0))
    /\ UNCHANGED <<call, current_hand, data, pc, result, diagnostics>>

\* lines 43-93
PromptBlock ==
    /\ pc = "scan" /\ file_exists /\ i < line_count
    /\ hand_match(lines[i + 1]) = 0
    /\ prompt_match(lines[i + 1]) # 0
    /\ LET agent_name == PromptGroup1(lines[i + 1])
           blk == ReadJsonBlock(i + 1, 1, <<LBrace, NL>>)
           prompt_data == json_loads(blk.json_str)
       IN  IF blk.bracket_level # 0
           THEN /\ i' = blk.i + 1
                /\ agent_prompts' = agent_prompts
                /\ trace' = Append(trace, Event("prompt", agent_name,
                                IF blk.bracket_level < 0 THEN "mismatch" ELSE "incomplete",
                                blk.i, 0))
           ELSE /\ i' = blk.i + 1
                /\ agent_prompts' =
                      IF prompt_data.ok
                      THEN DictSet(agent_prompts, agent_name,
                                   [data |-> prompt_data.value, str |-> blk.json_str])
                      ELSE DictPop(agent_prompts, agent_name)
                /\ trace' = Append(trace, Event("prompt", agent_name,
                                IF prompt_data.ok THEN "cached" ELSE "parse_failure",
                                blk.i, 0))
    /\ UNCHANGED <<call, current_hand, data, pc, result, diagnostics>>

\* lines 121-132
Record(agent_name, action, amount, reasoning, prompt_data, community_cards_list) ==
    [hand_id |-> current_hand,
     agent_name |-> agent_name,
     phase |-> derived_phase(PyLen(community_cards_list)),
     your_chips_before |-> DictGet(prompt_data, "your_chips", <<"0">>),
     your_cards |-> PyJoin(DictGet(prompt_data, "your_cards", <<ArrTok(<<>>)>>)),
     community_cards |-> PyJoin(community_cards_list),
     action |-> action,
     amount |-> amount,
     reasoning |-> reasoning,
     input_prompt_json |-> prompt_data]

\* Decision that evicts the entry it looked up
DecisionEvict ==
    /\ pc = "scan" /\ file_exists /\ i < line_count
    /\ hand_match(lines[i + 1]) = 0
    /\ prompt_match(lines[i + 1]) = 0
    /\ decision_match(lines[i + 1]) # 0
    /\ LET m == DecisionGroups(lines[i + 1])
           agent_name == m.agent
           reasoning == Strip(m.text)
       IN  IF DictHas(agent_prompts, agent_name)
           THEN LET prompt_data == DictGet(agent_prompts, agent_name, <<>>).data
                    community_cards_list ==
                        DictGet(prompt_data, "community", <<ArrTok(<<>>)>>)
                    raises ==
                        \/ ~HasLen(community_cards_list)
                        \/ ~HasLen(DictGet(prompt_data, "your_cards", <<ArrTok(<<>>)>>))
                IN  IF raises
                    THEN /\ pc' = "done"
                         /\ diagnostics' = diagnostics + 1
                         /\ result' = <<>>
                         /\ trace' = Append(trace, Event("decision", agent_name, "raised", i, 0))
                         /\ UNCHANGED <<i, data>>
                    ELSE /\ data' = Append(data, Record(agent_name, m.action, m.amount,
                                               reasoning, prompt_data, community_cards_list))
                         /\ i' = i + 1
                         /\ trace' = Append(trace, Event("decision", agent_name, "record", i,
                                                  Len(data) + 1))
                         /\ UNCHANGED <<pc, result, diagnostics>>
           ELSE /\ i' = i + 1
                /\ trace' = Append(trace, Event("decision", agent_name, "dropped", i, 0))
                /\ UNCHANGED <<data, pc, result, diagnostics>>
    /\ agent_prompts' = DictPop(agent_prompts, DecisionGroups(lines[i + 1]).agent)
    /\ UNCHANGED <<call, current_hand>>

\* Decision that puts the new record in front of the others
DecisionPrepend ==
    /\ pc = "scan" /\ file_exists /\ i < line_count
    /\ hand_match(lines[i + 1]) = 0
    /\ prompt_match(lines[i + 1]) = 0
    /\ decision_match(lines[i + 1]) # 0
    /\ LET m == DecisionGroups(lines[i + 1])
           agent_name == m.agent
           reasoning == Strip(m.text)
       IN  IF DictHas(agent_prompts, agent_name)
           THEN LET prompt_data == DictGet(agent_prompts, agent_name, <<>>).data
                    community_cards_list ==
                        DictGet(prompt_data, "community", <<ArrTok(<<>>)>>)
                    raises ==
                        \/ ~HasLen(community_cards_list)
                        \/ ~HasLen(DictGet(prompt_data, "your_cards", <<ArrTok(<<>>)>>))
                IN  IF raises
                    THEN /\ pc' = "done"
                         /\ diagnostics' = diagnostics + 1
                         /\ result' = <<>>
                         /\ trace' = Append(trace, Event("decision", agent_name, "raised", i, 0))
                         /\ UNCHANGED <<i, data>>
                    ELSE /\ data' = <<Record(agent_name, m.action, m.amount, reasoning,
                                           prompt_data, community_cards_list)>> \o data
                         /\ i' = i + 1
                         /\ trace' = Append(trace, Event("decision", agent_name, "record", i,
                                                  Len(data) + 1))
                         /\ UNCHANGED <<pc, result, diagnostics>>
           ELSE /\ i' = i + 1
                /\ trace' = Append(trace, Event("decision", agent_name, "dropped", i, 0))
                /\ UNCHANGED <<data, pc, result, diagnostics>>
    /\ UNCHANGED <<call, current_hand, agent_prompts>>

\* Decision that returns the records gathered so far when it raises
DecisionPartial ==
    /\ pc = "scan" /\ file_exists /\ i < line_count
    /\ hand_match(lines[i + 1]) = 0
    /\ prompt_match(lines[i + 1]) = 0
    /\ decision_match(lines[i + 1]) # 0
    /\ LET m == DecisionGroups(lines[i + 1])
           agent_name == m.agent
           reasoning == Strip(m.text)
       IN  IF DictHas(agent_prompts, agent_name)
           THEN LET prompt_data == DictGet(agent_prompts, agent_name, <<>>).data
                    community_cards_list ==
                        DictGet(prompt_data, "community", <<ArrTok(<<>>)>>)
                    raises ==
                        \/ ~HasLen(community_cards_list)
                        \/ ~HasLen(DictGet(prompt_data, "your_cards", <<ArrTok(<<>>)>>))
                IN  IF raises
                    THEN /\ pc' = "done"
                         /\ diagnostics' = diagnostics + 1
                         /\ result' = data
                         /\ trace' = Append(trace, Event("decision", agent_name, "raised", i, 0))
                         /\ UNCHANGED <<i, data>>
                    ELSE /\ data' = Append(data, Record(agent_name, m.action, m.amount,
                                               reasoning, prompt_data, community_cards_list))
                         /\ i' = i + 1
                         /\ trace' = Append(trace, Event("decision", agent_name, "record", i,
                                                  Len(data) + 1))
                         /\ UNCHANGED <<pc, result, diagnostics>>
           ELSE /\ i' = i + 1
                /\ trace' = Append(trace, Event("decision", agent_name, "dropped", i, 0))
                /\ UNCHANGED <<data, pc, result, diagnostics>>
    /\ UNCHANGED <<call, current_hand, agent_prompts>>

\* Decision tried before the hand-marker and prompt-start checks
DecisionFirst ==
    /\ pc = "scan" /\ file_exists /\ i < line_count
    /\ decision_match(lines[i + 1]) # 0
    /\ LET m == DecisionGroups(lines[i + 1])
           agent_name == m.agent
           reasoning == Strip(m.text)
       IN  IF DictHas(agent_prompts, agent_name)
           THEN LET prompt_data == DictGet(agent_prompts, agent_name, <<>>).data
                    community_cards_list ==
                        DictGet(prompt_data, "community", <<ArrTok(<<>>)>>)
                    raises ==
                        \/ ~HasLen(community_cards_list)
                        \/ ~HasLen(DictGet(prompt_data, "your_cards", <<ArrTok(<<>>)>>))
                IN  IF raises
                    THEN /\ pc' = "done"
                         /\ diagnostics' = diagnostics + 1
                         /\ result' = <<>>
                         /\ trace' = Append(trace, Event("decision", agent_name, "raised", i, 0))
                         /\ UNCHANGED <<i, data>>
                    ELSE /\ data' = Append(data, Record(agent_name, m.action, m.amount,
                                               reasoning, prompt_data, community_cards_list))
                         /\ i' = i + 1
                         /\ trace' = Append(trace, Event("decision", agent_name, "record", i,
                                                  Len(data) + 1))
                         /\ UNCHANGED <<pc, result, diagnostics>>
           ELSE /\ i' = i + 1
                /\ trace' = Append(trace, Event("decision", agent_name, "dropped", i, 0))
                /\ UNCHANGED <<data, pc, result, diagnostics>>
    /\ UNCHANGED <<call, current_hand, agent_prompts>>

\* lines 96-139, and lines 143-146 when len() or join() raises
Decision ==
    /\ pc = "scan" /\ file_exists /\ i < line_count
    /\ hand_match(lines[i + 1]) = 0
    /\ prompt_match(lines[i + 1]) = 0
    /\ decision_match(lines[i + 1]) # 0
    /\ LET m == DecisionGroups(lines[i + 1])
           agent_name == m.agent
           reasoning == Strip(m.text)
       IN  IF DictHas(agent_prompts, agent_name)
           THEN LET prompt_data == DictGet(agent_prompts, agent_name, <<>>).data
                    community_cards_list ==
                        DictGet(prompt_data, "community", <<ArrTok(<<>>)>>)
                    raises ==
                        \/ ~HasLen(community_cards_list)
                        \/ ~HasLen(DictGet(prompt_data, "your_cards", <<ArrTok(<<>>)>>))
                IN  IF raises
                    THEN /\ pc' = "done"
                         /\ diagnostics' = diagnostics + 1
                         /\ result' = <<>>
                         /\ trace' = Append(trace, Event("decision", agent_name, "raised", i, 0))
                         /\ UNCHANGED <<i, data>>
                    ELSE /\ data' = Append(data, Record(agent_name, m.action, m.amount,
                                               reasoning, prompt_data, community_cards_list))
                         /\ i' = i + 1
                         /\ trace' = Append(trace, Event("decision", agent_name, "record", i,
                                                  Len(data) + 1))
                         /\ UNCHANGED <<pc, result, diagnostics>>
           ELSE /\ i' = i + 1
                /\ trace' = Append(trace, Event("decision", agent_name, "dropped", i, 0))
                /\ UNCHANGED <<data, pc, result, diagnostics>>
    /\ UNCHANGED <<call, current_hand, agent_prompts>>

\* SkipLine without line 141: the cursor stays on the line
SkipLineStay ==
    /\ pc = "scan" /\ file_exists /\ i < line_count
    /\ hand_match(lines[i + 1]) = 0
    /\ prompt_match(lines[i + 1]) = 0
    /\ decision_match(lines[i + 1]) = 0
    /\ i' = i
    /\ trace' = Append(trace, Event("skip", "", "skipped", i, 0))
    /\ UNCHANGED <<call, current_hand, agent_prompts, data, pc, result, diagnostics>>

\* line 141
SkipLine ==
    /\ pc = "scan" /\ file_exists /\ i < line_count
    /\ hand_match(lines[i + 1]) = 0
    /\ prompt_match(lines[i + 1]) = 0
    /\ decision_match(lines[i + 1]) = 0
    /\ i' = i + 1
    /\ trace' = Append(trace, Event("skip", "", "skipped", i, 0))
    /\ UNCHANGED <<call, current_hand, agent_prompts, data, pc, result, diagnostics>>

\* line 148: the loop is over, the accumulated records are returned
Return ==
    /\ pc = "scan" /\ file_exists /\ ~(i < line_count)
    /\ pc' = "done"
    /\ result' = data
    /\ UNCHANGED <<call, i, current_hand, agent_prompts, data, diagnostics, trace>>

\* lines 15-17: no file at the path, an empty frame is returned at once
MissingFile ==
    /\ pc = "scan" /\ ~file_exists
    /\ pc' = "done"
    /\ result' = <<>>
    /\ UNCHANGED <<call, i, current_hand, agent_prompts, data, diagnostics, trace>>

Next == MissingFile \/ HandMarker \/ PromptBlock \/ Decision \/ SkipLine \/ Return

\* SecondCall that scans with the cache the first call left
SecondCallKeepCache ==
    /\ pc = "done" /\ pass = 1
    /\ pass' = 2
    /\ previous' = [result |-> result, diagnostics |-> diagnostics]
    /\ i' = 0
    /\ current_hand' = 0
    /\ data' = <<>>
    /\ pc' = "scan"
    /\ result' = <<>>
    /\ diagnostics' = 0
    /\ trace' = <<>>
    /\ UNCHANGED <<file_exists, lines, line_count, agent_prompts>>

\* a second call of load_log_data on the same file: lines 19-24 run again
SecondCall ==
    /\ pc = "done" /\ pass = 1
    /\ pass' = 2
    /\ previous' = [result |-> result, diagnostics |-> diagnostics]
    /\ i' = 0
    /\ current_hand' = 0
    /\ agent_prompts' = {}
    /\ data' = <<>>
    /\ pc' = "scan"
    /\ result' = <<>>
    /\ diagnostics' = 0
    /\ trace' = <<>>
    /\ UNCHANGED <<file_exists, lines, line_count>>

NextTwice ==
    MissingFile \/ HandMarker \/ PromptBlock \/ Decision \/ SkipLine \/ Return \/ SecondCall

Spec == Init /\ [][Next]_vars

\* the loop runs to its end: a step that can be taken is taken
InitLive == InitOn(LiveLines, MaxLiveLines)
SpecLive == InitLive /\ [][Next]_vars /\ WF_vars(Next)

InitJson == InitOn(JsonLines, MaxLines)
SpecJson == InitJson /\ [][Next]_vars

InitPhase == InitOn(PhaseLines, MaxPhaseLines)
SpecPhase == InitPhase /\ [][Next]_vars

InitOverwrite == InitOn(OverwriteLines, MaxLines)
SpecOverwrite == InitOverwrite /\ [][Next]_vars

InitFailure == InitOn(FailureLines, MaxFailLines)
SpecFailure == InitFailure /\ [][Next]_vars

InitOrder == InitOn(OrderLines, MaxLines)
SpecOrder == InitOrder /\ [][Next]_vars

InitDispatch == InitOn(DispatchLines, MaxLines)
SpecDispatch == InitDispatch /\ [][Next]_vars

\* two calls on the same file
InitTwice == InitOn(LogLines, MaxTwiceLines)
SpecTwice == InitTwice /\ [][NextTwice]_vars

TypeOK ==
    /\ file_exists \in BOOLEAN
    /\ i \in 0..(line_count + 1)
    /\ pc \in {"scan", "done"}
    /\ current_hand \in {0} \cup Hands
    /\ Len(trace) <= line_count

(***************************************************************************)
(* Reading the history.                                                    *)
(***************************************************************************)
Events == 1..Len(trace)
IsDecisionEvent(d) == trace[d].kind = "decision"
IsPromptEvent(p, a, outcome) ==
    trace[p].kind = "prompt" /\ trace[p].agent = a /\ trace[p].outcome = outcome
IsHandEvent(h) == trace[h].kind = "hand"

\* a prompt of the agent of decision d was cached before d, with no hand marker
\* and no eviction of that agent between the two
HasLivePrompt(d) ==
    \E p \in 1..(d-1) :
        /\ IsPromptEvent(p, trace[d].agent, "cached")
        /\ \A k \in (p+1)..(d-1) :
              /\ ~IsHandEvent(k)
              /\ ~IsPromptEvent(k, trace[d].agent, "parse_failure")

(***************************************************************************)
(* C1: a decision line of agent A yields a record only if a prompt of      *)
(* exactly A was parsed and cached on an earlier line, after the most      *)
(* recent hand marker and with no eviction since; a decision line without  *)
(* such a prompt yields no record and no error; a decision line yields at  *)
(* most one record.                                                        *)
(***************************************************************************)
C1_RecordOnlyFromLivePrompt ==
    /\ \A d \in Events : IsDecisionEvent(d) =>
          /\ trace[d].outcome = "record" =>
                /\ HasLivePrompt(d)
                /\ trace[d].rec \in 1..Len(data)
                /\ data[trace[d].rec].agent_name = trace[d].agent
          /\ ~HasLivePrompt(d) => trace[d].outcome = "dropped"
    /\ \A j, k \in Events : j < k => trace[j].line < trace[k].line
    /\ \A n \in 1..Len(data) :
          Cardinality({d \in Events : trace[d].rec = n}) = 1
    /\ \A d \in Events : trace[d].rec # 0 =>
          IsDecisionEvent(d) /\ trace[d].outcome = "record"

\* a record was emitted, and a decision of an agent whose prompt was cached
\* in an earlier hand was dropped
C1_Witness ==
    /\ \E d \in Events : IsDecisionEvent(d) /\ trace[d].outcome = "record"
    /\ \E d \in Events :
          /\ IsDecisionEvent(d) /\ trace[d].outcome = "dropped"
          /\ \E p \in 1..(d-1) : IsPromptEvent(p, trace[d].agent, "cached")

(***************************************************************************)
(* C2: a hand marker empties the cache, also when its number is the        *)
(* current hand id: a decision line after a marker, with no prompt of its  *)
(* agent cached in between, yields no record.                              *)
(***************************************************************************)
C2_MarkerClearsCache ==
    /\ (trace # <<>> /\ IsHandEvent(Len(trace))) => agent_prompts = {}
    /\ \A d \in Events : \A h \in 1..(d-1) :
          (/\ IsDecisionEvent(d)
           /\ IsHandEvent(h)
           /\ \A k \in (h+1)..(d-1) : ~IsPromptEvent(k, trace[d].agent, "cached"))
          => trace[d].outcome = "dropped"

\* a prompt was cached in hand N, a marker repeated the number N, and the
\* decision of that agent after it was dropped
C2_Witness ==
    \E d \in Events : \E h \in 1..(d-1) : \E p \in 1..(h-1) : \E g \in 1..(p-1) :
        /\ IsDecisionEvent(d) /\ trace[d].outcome = "dropped"
        /\ IsHandEvent(h) /\ IsHandEvent(g)
        /\ HandGroup1(lines[trace[h].line + 1]) = HandGroup1(lines[trace[g].line + 1])
        /\ \A k \in (g+1)..(h-1) : ~IsHandEvent(k)
        /\ IsPromptEvent(p, trace[d].agent, "cached")

(***************************************************************************)
(* The span of a prompt's JSON object as a JSON parser delimits it: from   *)
(* the opening brace of the prompt line to the brace that returns the      *)
(* nesting to zero, every brace counted in the order it appears.           *)
(***************************************************************************)
RECURSIVE ScanLine(_, _, _, _)
ScanLine(s, p, depth, deepest) ==
    IF p > Len(s) THEN [closed |-> FALSE, at |-> 0, depth |-> depth, deepest |-> deepest]
    ELSE IF s[p] = LBrace
    THEN ScanLine(s, p + 1, depth + 1, IF depth + 1 > deepest THEN depth + 1 ELSE deepest)
    ELSE IF s[p] = RBrace
    THEN IF depth <= 1
         THEN [closed |-> TRUE, at |-> p, depth |-> 0, deepest |-> deepest]
         ELSE ScanLine(s, p + 1, depth - 1, deepest)
    ELSE ScanLine(s, p + 1, depth, deepest)

RECURSIVE TrueBlock(_, _, _, _, _)
TrueBlock(k, p, depth, deepest, text) ==
    IF ~(k < line_count)
    THEN [found |-> FALSE, last |-> k, deepest |-> deepest, text |-> text]
    ELSE LET r == ScanLine(lines[k + 1], p, depth, deepest) IN
         IF r.closed
         THEN [found |-> TRUE, last |-> k, deepest |-> r.deepest,
               text |-> text \o SubSeq(lines[k + 1], p, r.at)]
         ELSE TrueBlock(k + 1, 1, r.depth, r.deepest,
                        text \o SubSeq(lines[k + 1], p, Len(lines[k + 1])))

\* the JSON object of the prompt that starts on line k (0-based)
JsonSpan(k) == TrueBlock(k, prompt_match(lines[k + 1]) + 1, 0, 0, <<>>)

\* line k starts a prompt whose object is complete and valid JSON
WellFormedPrompt(k) ==
    /\ k < line_count
    /\ prompt_match(lines[k + 1]) # 0
    /\ JsonSpan(k).found
    /\ json_loads(JsonSpan(k).text).ok

(***************************************************************************)
(* C3: a prompt block whose object nests objects is captured up to the     *)
(* line where the true nesting returns to zero: the captured text is the   *)
(* span a JSON parser selects, and it is parsed into the cache.            *)
(***************************************************************************)
C3_NestedBlockCaptured ==
    \A e \in Events :
        (/\ trace[e].kind = "prompt"
         /\ WellFormedPrompt(trace[e].line)
         /\ JsonSpan(trace[e].line).deepest >= 2)
        => /\ trace[e].last = JsonSpan(trace[e].line).last
           /\ trace[e].outcome = "cached"
           /\ e = Len(trace) =>
                 DictGet(agent_prompts, trace[e].agent, <<>>).str
                     = JsonSpan(trace[e].line).text

(***************************************************************************)
(* Reading the file.                                                       *)
(***************************************************************************)
LineIndexes == 0..(line_count - 1)
IsMarkerLine(k) == hand_match(lines[k + 1]) # 0
IsPromptStart(k, a) ==
    /\ hand_match(lines[k + 1]) = 0
    /\ prompt_match(lines[k + 1]) # 0
    /\ PromptGroup1(lines[k + 1]) = a
IsDecisionLine(k, a) ==
    /\ hand_match(lines[k + 1]) = 0
    /\ prompt_match(lines[k + 1]) = 0
    /\ decision_match(lines[k + 1]) # 0
    /\ DecisionGroups(lines[k + 1]).agent = a
NoDecisionLines == \A k \in LineIndexes : decision_match(lines[k + 1]) = 0
NoMarkerLines == \A k \in LineIndexes : hand_match(lines[k + 1]) = 0

(***************************************************************************)
(* C4 as stated: a log with zero decision lines or zero hand-marker lines  *)
(* returns an empty record sequence and does not fail.                     *)
(***************************************************************************)
C4_EmptyWithoutDecisionOrMarker ==
    (pc = "done" /\ (NoDecisionLines \/ NoMarkerLines))
        => (result = <<>> /\ diagnostics = 0)

(***************************************************************************)
(* C4 amended: a log with zero decision lines returns an empty record      *)
(* sequence and does not fail; a log with zero hand-marker lines returns   *)
(* the records of its correlated decisions, all of them with hand_id 0.    *)
(***************************************************************************)
C4_EmptyWithoutDecision ==
    pc = "done" =>
        /\ NoDecisionLines => (result = <<>> /\ diagnostics = 0)
        /\ NoMarkerLines => \A n \in 1..Len(result) : result[n].hand_id = 0

\* a finished pass over a log with a marker and a cached prompt, no decision
C4_Witness ==
    /\ pc = "done" /\ NoDecisionLines
    /\ \E h \in Events : IsHandEvent(h)
    /\ \E p \in Events : trace[p].kind = "prompt" /\ trace[p].outcome = "cached"

(***************************************************************************)
(* C5: a prompt block of agent A whose brace depth goes below 0 evicts     *)
(* A's entry: a later decision line of A, with no prompt of A cached in    *)
(* between, yields no record.                                              *)
(***************************************************************************)
C5_MismatchEvicts ==
    /\ \A a \in Agents :
          (trace # <<>> /\ IsPromptEvent(Len(trace), a, "mismatch"))
              => ~DictHas(agent_prompts, a)
    /\ \A d \in Events : \A m \in 1..(d-1) :
          (/\ IsDecisionEvent(d)
           /\ IsPromptEvent(m, trace[d].agent, "mismatch")
           /\ \A k \in (m+1)..(d-1) : ~IsPromptEvent(k, trace[d].agent, "cached"))
          => trace[d].outcome = "dropped"

(***************************************************************************)
(* C6: a prompt block of agent A that ends at depth 0 with text that is    *)
(* not valid JSON leaves no entry of A in the cache, the scan resumes on   *)
(* the line after the block, and a later decision line of A with no prompt *)
(* of A cached in between yields no record.                                *)
(***************************************************************************)
C6_ParseFailureEvicts ==
    /\ \A a \in Agents :
          (trace # <<>> /\ IsPromptEvent(Len(trace), a, "parse_failure"))
              => /\ ~DictHas(agent_prompts, a)
                 /\ i = trace[Len(trace)].last + 1
    /\ \A e \in Events : \A a \in Agents :
          (IsPromptEvent(e, a, "parse_failure") /\ e < Len(trace))
              => trace[e + 1].line = trace[e].last + 1
    /\ \A d \in Events : \A f \in 1..(d-1) :
          (/\ IsDecisionEvent(d)
           /\ IsPromptEvent(f, trace[d].agent, "parse_failure")
           /\ \A k \in (f+1)..(d-1) : ~IsPromptEvent(k, trace[d].agent, "cached"))
          => trace[d].outcome = "dropped"

\* a prompt of A was cached, a later block of A in the same hand failed to
\* parse, and the decision line of A after it was dropped
C6_Witness ==
    \E d \in Events : \E f \in 1..(d-1) : \E c \in 1..(f-1) :
        /\ IsDecisionEvent(d) /\ trace[d].outcome = "dropped"
        /\ IsPromptEvent(f, trace[d].agent, "parse_failure")
        /\ IsPromptEvent(c, trace[d].agent, "cached")
        /\ \A k \in (c+1)..(d-1) : ~IsHandEvent(k)

(***************************************************************************)
(* C7: in a log with one malformed prompt section, every well-formed       *)
(* prompt block that comes after it and is followed, in the same hand and  *)
(* before any other prompt of its agent, by a decision line of its agent,  *)
(* yields the record of that decision.                                     *)
(***************************************************************************)
MalformedPrompt(k) ==
    /\ hand_match(lines[k + 1]) = 0
    /\ prompt_match(lines[k + 1]) # 0
    /\ ~WellFormedPrompt(k)

C7_LocalRecovery ==
    (pc = "done" /\ Cardinality({m \in LineIndexes : MalformedPrompt(m)}) = 1)
    => \A k, d \in LineIndexes : \A a \in Agents :
          (/\ IsPromptStart(k, a) /\ WellFormedPrompt(k)
           /\ \E m \in 0..(k-1) : MalformedPrompt(m)
           /\ d > JsonSpan(k).last
           /\ IsDecisionLine(d, a)
           /\ \A j \in (k+1)..(d-1) : ~IsMarkerLine(j) /\ prompt_match(lines[j + 1]) = 0)
          => \E e \in Events : trace[e].line = d /\ trace[e].outcome = "record"

(***************************************************************************)
(* The prompt a decision is correlated with: the latest prompt of its      *)
(* agent cached before it, read back from the file.                        *)
(***************************************************************************)
CachedBefore(d) == {p \in 1..(d-1) : IsPromptEvent(p, trace[d].agent, "cached")}
CorrelatedPrompt(d) == CHOOSE p \in CachedBefore(d) : \A q \in CachedBefore(d) : q <= p
ParsedSpan(k) == json_loads(JsonSpan(k).text).value
PromptOf(d) == ParsedSpan(trace[CorrelatedPrompt(d)].line)
RecordEvents == {d \in Events : IsDecisionEvent(d) /\ trace[d].outcome = "record"}

\* the number of community cards of a parsed prompt, 0 without the key
CardCount(parsed) ==
    IF \E e \in parsed : e.k = "community"
    THEN Len(ArrVal((CHOOSE e \in parsed : e.k = "community").v[1]))
    ELSE 0

(***************************************************************************)
(* C8: the phase of every record is one of the five labels and follows     *)
(* the number of community cards of the correlated prompt: preflop iff 0   *)
(* (also without a community key), flop iff 3, turn iff 4, river iff 5,    *)
(* unknown for every other count.                                          *)
(***************************************************************************)
C8_PhaseFromCommunity ==
    \A d \in RecordEvents :
        LET r == data[trace[d].rec]
            n == CardCount(PromptOf(d))
        IN  /\ r.phase \in {"preflop", "flop", "turn", "river", "unknown"}
            /\ r.phase = "preflop" <=> n = 0
            /\ r.phase = "flop" <=> n = 3
            /\ r.phase = "turn" <=> n = 4
            /\ r.phase = "river" <=> n = 5
            /\ r.phase = "unknown" <=> n \notin {0, 3, 4, 5}

\* records of a prompt with two community cards and of one without the key
C8_Witness ==
    \E d \in RecordEvents :
        /\ CardCount(PromptOf(d)) = 2
        /\ data[trace[d].rec].phase = "unknown"

(***************************************************************************)
(* C9: a hand marker N, then a well-formed prompt block of agent A over    *)
(* several lines that ends with its closing brace, then a decision line of *)
(* A, yield exactly one record: hand_id N, agent A, the chips, the joined  *)
(* hole cards and community cards of that prompt, and the action, amount   *)
(* and trimmed reasoning of the decision line.                             *)
(***************************************************************************)
ExpectedRecord(n, a, parsed, m) ==
    [hand_id |-> n,
     agent_name |-> a,
     phase |-> derived_phase(CardCount(parsed)),
     your_chips_before |-> DictGet(parsed, "your_chips", <<"0">>),
     your_cards |-> JoinStr(", ", ArrVal(DictGet(parsed, "your_cards", <<"[]">>)[1])),
     community_cards |-> JoinStr(", ", ArrVal(DictGet(parsed, "community", <<"[]">>)[1])),
     action |-> m.action,
     amount |-> m.amount,
     reasoning |-> Strip(m.text),
     input_prompt_json |-> parsed]

C9_MarkerPromptDecision ==
    pc = "done" =>
    \A h \in Events : \A a \in Agents :
        LET k == trace[h].line + 1
            q == JsonSpan(k).last
        IN  (/\ IsHandEvent(h)
             /\ k < line_count
             /\ IsPromptStart(k, a)
             /\ WellFormedPrompt(k)
             /\ q > k
             /\ RFind(lines[q + 1], RBrace) = Len(Strip(lines[q + 1]))
             /\ q + 1 < line_count
             /\ IsDecisionLine(q + 1, a))
            => /\ Cardinality({e \in Events : trace[e].line = q + 1}) = 1
               /\ \E e \in RecordEvents :
                     /\ trace[e].line = q + 1
                     /\ Cardinality({f \in RecordEvents : trace[f].rec = trace[e].rec}) = 1
                     /\ result[trace[e].rec] =
                            ExpectedRecord(HandGroup1(lines[k]), a, ParsedSpan(k),
                                           DecisionGroups(lines[q + 2]))

(***************************************************************************)
(* C10: a second prompt of an agent parsed in the same hand replaces the   *)
(* first: the cache holds at most one entry per agent, the entry of the    *)
(* prompt cached last, and a record carries the data of the latest prompt  *)
(* of its agent cached before the decision line.                           *)
(***************************************************************************)
C10_SecondPromptWins ==
    /\ \A a \in Agents : Cardinality({e \in agent_prompts : e.k = a}) <= 1
    /\ \A a \in Agents :
          (trace # <<>> /\ IsPromptEvent(Len(trace), a, "cached"))
              => \A e \in agent_prompts :
                    e.k = a => e.v.data = ParsedSpan(trace[Len(trace)].line)
    /\ \A d \in RecordEvents :
          /\ data[trace[d].rec].input_prompt_json = PromptOf(d)
          /\ data[trace[d].rec].community_cards
                 = JoinStr(", ", ArrVal(DictGet(PromptOf(d), "community", <<"[]">>)[1]))

\* two prompts of one agent with different contents were cached in one
\* hand, and a decision line of that agent after them yielded a record
C10_Witness ==
    \E d \in RecordEvents : \E p2 \in 1..(d-1) : \E p1 \in 1..(p2-1) :
        /\ IsPromptEvent(p1, trace[d].agent, "cached")
        /\ IsPromptEvent(p2, trace[d].agent, "cached")
        /\ \A k \in (p1+1)..(d-1) : ~IsHandEvent(k)
        /\ ParsedSpan(trace[p1].line) # ParsedSpan(trace[p2].line)
        /\ data[trace[d].rec].input_prompt_json = ParsedSpan(trace[p2].line)

(***************************************************************************)
(* Steps of the pass, read from the history: the step appends one event.   *)
(***************************************************************************)
StepOf(kind) ==
    /\ Len(trace') = Len(trace) + 1
    /\ trace'[Len(trace')].kind = kind

\* a parsed prompt whose card values are lists, as the log format has them
ConformingPrompt(parsed) ==
    \A e \in parsed : e.k \in {"community", "your_cards"} => e.v[1] \in ArrToks

(***************************************************************************)
(* C11: handling a decision line changes neither the cache nor the hand    *)
(* id; every decision line of agent A that follows a cached prompt of A    *)
(* with no hand marker and no prompt of A in between yields a record with  *)
(* the data of that prompt, however many decision lines came before it.    *)
(***************************************************************************)
C11_DecisionKeepsCache ==
    /\ [][StepOf("decision") =>
             (agent_prompts' = agent_prompts /\ current_hand' = current_hand)]_vars
    /\ [](\A d \in Events : \A p \in 1..(d-1) :
             (/\ IsDecisionEvent(d)
              /\ IsPromptEvent(p, trace[d].agent, "cached")
              /\ ConformingPrompt(ParsedSpan(trace[p].line))
              /\ \A k \in (p+1)..(d-1) :
                    ~IsHandEvent(k) /\ ~(trace[k].kind = "prompt"
                                          /\ trace[k].agent = trace[d].agent))
             => /\ trace[d].outcome = "record"
                /\ data[trace[d].rec].input_prompt_json = ParsedSpan(trace[p].line))

\* three decision lines in a row after one prompt, three records of it
C11_Witness ==
    \E p \in Events : \E a \in Agents :
        /\ IsPromptEvent(p, a, "cached")
        /\ p + 3 <= Len(trace)
        /\ \A d \in (p+1)..(p+3) :
              /\ IsDecisionEvent(d) /\ trace[d].agent = a
              /\ trace[d].outcome = "record"
              /\ data[trace[d].rec].input_prompt_json = ParsedSpan(trace[p].line)

(***************************************************************************)
(* C12: the accumulator only grows, by one record appended at its end,     *)
(* and the records it holds are never changed; the records are in the      *)
(* order of the decision lines they come from.                             *)
(***************************************************************************)
C12_AppendOnlyInLineOrder ==
    /\ [][\/ data' = data
          \/ /\ Len(data') = Len(data) + 1
             /\ SubSeq(data', 1, Len(data)) = data]_vars
    /\ [](\A d1, d2 \in RecordEvents :
             trace[d1].rec < trace[d2].rec <=> trace[d1].line < trace[d2].line)
    /\ [](\A d \in RecordEvents :
             LET m == DecisionGroups(lines[trace[d].line + 1])
                 r == data[trace[d].rec]
             IN  r.action = m.action /\ r.amount = m.amount /\ r.agent_name = m.agent)

\* two records that differ, the one of the earlier decision line first
C12_Witness ==
    \E d1, d2 \in RecordEvents :
        /\ trace[d1].line < trace[d2].line
        /\ trace[d1].rec < trace[d2].rec
        /\ data[trace[d1].rec] # data[trace[d2].rec]

(***************************************************************************)
(* C13: when an exception is raised during the pass, the call returns the  *)
(* empty record set and surfaces one diagnostic; the records accumulated   *)
(* before the failure are not returned.                                    *)
(***************************************************************************)
Raised == \E e \in Events : trace[e].outcome = "raised"

C13_FailureReturnsEmpty ==
    /\ diagnostics \in {0, 1}
    /\ diagnostics = 1 <=> Raised
    /\ Raised => (pc = "done" /\ result = <<>>)

\* the pass failed after it had accumulated a record
C13_Witness == Raised /\ data # <<>> /\ pc = "done" /\ result = <<>> /\ diagnostics = 1

(***************************************************************************)
(* C14: deriving the phase never fails: a decision line correlated with a  *)
(* cached prompt yields a record whatever the community value of the       *)
(* prompt is, with phase unknown when the value is not a list, and the     *)
(* pass is not aborted.                                                    *)
(***************************************************************************)
C14_PhaseNeverFails ==
    /\ ~Raised /\ diagnostics = 0
    /\ \A d \in Events :
          (IsDecisionEvent(d) /\ HasLivePrompt(d))
          => /\ trace[d].outcome = "record"
             /\ ~ConformingPrompt(PromptOf(d)) => data[trace[d].rec].phase = "unknown"

(***************************************************************************)
(* C15: the pass terminates.  Every iteration of the outer loop that       *)
(* leaves the loop running ends with the cursor strictly greater than at   *)
(* its start and at most one past the line count, the step taken with the  *)
(* cursor at or past the line count ends the pass, and the pass does end.  *)
(***************************************************************************)
C15_PassTerminates ==
    /\ [][/\ pc = "scan"
          /\ pc' = "scan" => (i' > i /\ i' <= line_count + 1)
          /\ i >= line_count => pc' = "done"]_vars
    /\ <>(pc = "done")

\* a finished pass that went through the four branches of the loop, one of
\* them a prompt block cut by the end of the file
C15_Witness ==
    /\ pc = "done"
    /\ \A kind \in {"hand", "prompt", "decision", "skip"} :
          \E e \in Events : trace[e].kind = kind
    /\ \E e \in Events : trace[e].outcome = "incomplete"
    /\ i = line_count + 1

HandlerOf(line) ==
    IF hand_match(line) # 0 THEN "hand"
    ELSE IF prompt_match(line) # 0 THEN "prompt"
    ELSE IF decision_match(line) # 0 THEN "decision"
    ELSE "skip"

C17_DispatchPriority ==
    /\ [](\A e \in Events :
             /\ trace[e].kind = HandlerOf(lines[trace[e].line + 1])
             /\ trace[e].kind # "decision" => trace[e].rec = 0
             /\ \A f \in Events : trace[f].line = trace[e].line => f = e)
    /\ [](Len(data) = Cardinality(RecordEvents))
    /\ [][(StepOf("hand") \/ StepOf("prompt")) => data' = data]_vars
    /\ [][StepOf("hand") => (agent_prompts' = {} /\ i' = i + 1)]_vars

\* with a prompt of the agent in the cache, a line with a marker and a
\* decision was handled as a marker and a line with a decision and a prompt
\* start as a prompt start
C17_Witness ==
    /\ \E h \in Events :
          /\ IsHandEvent(h)
          /\ decision_match(lines[trace[h].line + 1]) # 0
          /\ \E p \in 1..(h-1) :
                /\ IsPromptEvent(p, DecisionGroups(lines[trace[h].line + 1]).agent, "cached")
                /\ \A k \in (p+1)..(h-1) : ~IsHandEvent(k)
    /\ \E q \in Events :
          /\ trace[q].kind = "prompt"
          /\ decision_match(lines[trace[q].line + 1]) # 0
          /\ \E p \in 1..(q-1) :
                /\ IsPromptEvent(p, trace[q].agent, "cached")
                /\ \A k \in (p+1)..(q-1) : ~IsHandEvent(k)

(***************************************************************************)
(* C18: the cursor never decreases and every line is consumed at most      *)
(* once: a line the JSON extractor consumed as part of a prompt body (from *)
(* the line after the prompt start through the line where the capture      *)
(* stops) is never dispatched, so a hand-marker or decision line inside a  *)
(* prompt body changes neither the hand id, the cache nor the output.      *)
(***************************************************************************)
BodyOf(p) == {k \in LineIndexes : trace[p].line < k /\ k <= trace[p].last}

\* the step dispatches a prompt start whose body holds a marker or a decision
ConsumesDispatchable ==
    /\ StepOf("prompt")
    /\ \E k \in (i + 1)..(i' - 1) :
          /\ k \in LineIndexes
          /\ (hand_match(lines[k + 1]) # 0 \/ decision_match(lines[k + 1]) # 0)

C18_SinglePass ==
    /\ [][i' >= i]_vars
    /\ [](\A e \in Events :
             /\ trace[e].line \in LineIndexes
             /\ trace[e].last >= trace[e].line
             /\ trace[e].kind # "prompt" => trace[e].last = trace[e].line
             /\ e > 1 => trace[e].line = trace[e - 1].last + 1
             /\ \A p \in Events : trace[p].kind = "prompt" => trace[e].line \notin BodyOf(p))
    /\ [](pc = "scan" => i = IF trace = <<>> THEN 0 ELSE trace[Len(trace)].last + 1)
    /\ [][ConsumesDispatchable =>
             /\ current_hand' = current_hand
             /\ data' = data
             /\ \A a \in Agents \ {trace'[Len(trace')].agent} :
                   /\ DictHas(agent_prompts', a) = DictHas(agent_prompts, a)
                   /\ DictHas(agent_prompts, a) =>
                         DictGet(agent_prompts', a, <<>>) = DictGet(agent_prompts, a, <<>>)]_vars

\* a prompt body swallowed a hand marker and a decision of an agent whose
\* prompt was in the cache: no hand was started and no record emitted
C18_Witness ==
    /\ pc = "done" /\ current_hand = 0 /\ result = <<>>
    /\ \E p \in Events :
          /\ trace[p].kind = "prompt"
          /\ \E k \in BodyOf(p) : hand_match(lines[k + 1]) # 0
          /\ \E k \in BodyOf(p) :
                /\ decision_match(lines[k + 1]) # 0
                /\ DictHas(agent_prompts, DecisionGroups(lines[k + 1]).agent)

(***************************************************************************)
(* C19: in every emitted record, hand_id is the number of the most recent  *)
(* hand-marker line dispatched before the record's decision line, 0 if     *)
(* none was dispatched, and it is also the hand id that was current when   *)
(* the correlated prompt was cached.                                       *)
(***************************************************************************)
MarkersBefore(e) == {h \in 1..(e - 1) : IsHandEvent(h)}
LastMarker(e) == CHOOSE h \in MarkersBefore(e) : \A g \in MarkersBefore(e) : g <= h
HandAt(e) ==
    IF MarkersBefore(e) = {} THEN 0
    ELSE HandGroup1(lines[trace[LastMarker(e)].line + 1])

C19_HandIdOfLatestMarker ==
    /\ \A d \in RecordEvents :
          /\ data[trace[d].rec].hand_id = HandAt(d)
          /\ HandAt(d) = HandAt(CorrelatedPrompt(d))
    /\ pc = "scan" => current_hand = HandAt(Len(trace) + 1)

\* a record after two markers of different numbers, the larger one first
C19_Witness ==
    \E d \in RecordEvents : \E h1, h2 \in MarkersBefore(d) :
        /\ h1 < h2
        /\ HandGroup1(lines[trace[h1].line + 1]) > HandGroup1(lines[trace[h2].line + 1])
        /\ data[trace[d].rec].hand_id = HandGroup1(lines[trace[h2].line + 1])

(***************************************************************************)
(* C20: processing a prompt block for agent A, whatever its outcome        *)
(* (cached, parse failure, delimiter mismatch or input exhausted), leaves  *)
(* the cache entries of every other agent, the current hand id and the     *)
(* result accumulator unchanged.                                           *)
(***************************************************************************)
EntriesOfOthers(d, a) == {e \in d : e.k # a}

C20_PromptBlockFrame ==
    [][StepOf("prompt") =>
          /\ trace'[Len(trace')].outcome \in
                {"cached", "parse_failure", "mismatch", "incomplete"}
          /\ EntriesOfOthers(agent_prompts', trace'[Len(trace')].agent)
                = EntriesOfOthers(agent_prompts, trace'[Len(trace')].agent)
          /\ current_hand' = current_hand
          /\ data' = data
          /\ result' = result /\ diagnostics' = diagnostics]_vars

\* with the prompt of another agent in the cache, two prompt blocks of one
\* agent ended differently, neither of them cached
C20_Witness ==
    \E o \in Events : \E p, q \in Events : \E a \in Agents :
        /\ o < p /\ p < q
        /\ trace[o].kind = "prompt" /\ trace[o].outcome = "cached" /\ trace[o].agent # a
        /\ trace[p].kind = "prompt" /\ trace[p].agent = a
        /\ trace[q].kind = "prompt" /\ trace[q].agent = a
        /\ trace[p].outcome # trace[q].outcome
        /\ "cached" \notin {trace[p].outcome, trace[q].outcome}
        /\ DictHas(agent_prompts, trace[o].agent)

====
